---- MODULE Spec2Model ----
(***************************************************************************)
(* Model of msa/mdp/mdp.go: the memoized multi-dimensional dynamic         *)
(* program that scores the optimal sum-of-pairs alignment of k sequences.  *)
(* The recursion of multiDP.optimalScore is unfolded into an explicit call *)
(* stack, one frame per invocation that reached the mask loop.             *)
(***************************************************************************)
EXTENDS Integers, Sequences, FiniteSets, TLC

VARIABLES calls, seqStrings, seqs, table, cached, subsetMasks, stack,
          passed, stores, panicked, pc, results

vars == <<calls, seqStrings, seqs, table, cached, subsetMasks, stack,
          passed, stores, panicked, pc, results>>

\* ------------------------------------------------------------------ bounds
\* most sequences in one Solve call
MaxK == 3
\* most characters in all strings of one list
MaxTotal == 4
\* lists that are solved twice: most sequences, most characters in all
MaxTwiceK == 2
MaxTwiceTotal == 5
\* most characters in all strings of a list that is then permuted
MaxPermTotal == 4
\* lists that are then extended: most sequences, most characters in all
MaxAppK == 4
MaxAppTotal == 3
\* identical-sequence runs: most sequences, longest string
MaxIdK == 3
MaxIdLen == 3

\* ------------------------------------------------------- bases and scores
A == 0
C == 1
G == 2
T == 3
X == 4

match == 6
mismatch == -4
gap == -3

\* stand-in for math.MinInt64 (TLC's integers are 32 bit); every score of
\* the model lies far above it, as it lies above the 64 bit minimum
MinInt64 == -2147483647

\* characters of the input strings; "-" stands for every character that is
\* not one of A, C, G, T
Chars == {"A", "C", "-"}
BaseChars == {"A", "C", "G", "T"}
IdChars == {"A", "C", "G"}

convertStringBase(b) ==
  CASE b = "A" -> A
    [] b = "C" -> C
    [] b = "G" -> G
    [] b = "T" -> T
    [] OTHER -> X

convertStringSequence(seq) == [i \in 1..Len(seq) |-> convertStringBase(seq[i])]

\* ------------------------------------------------------------ mask set
decrementedIndices(idxs) == [i \in 1..Len(idxs) |-> idxs[i] - 1]

arraysMatch(s1, s2) ==
  Cardinality({i \in 1..Len(s1) : s2[i] = s1[i]}) = Len(s1)

RECURSIVE purgeFrom(_, _, _)
purgeFrom(si, subsets, n) ==
  IF n > Len(subsets) THEN <<>>
  ELSE IF ~arraysMatch(subsets[n], si)
       THEN <<subsets[n]>> \o purgeFrom(si, subsets, n + 1)
       ELSE purgeFrom(si, subsets, n + 1)

purgeNothing(idxs, subsets) == subsets

purgeAllGapCase(idxs, subsets) == purgeFrom(decrementedIndices(idxs), subsets, 1)

RECURSIVE expand(_, _, _)
expand(prev, x, n) ==
  IF n > Len(prev) THEN <<>>
  ELSE <<Append(prev[n], x), Append(prev[n], x - 1)>> \o expand(prev, x, n + 1)

\* i is the 0-based index of the code, -1 for the empty prefix
RECURSIVE subsetHelper(_, _)
subsetHelper(idxs, i) ==
  IF i = -1 THEN << <<>> >>
  ELSE expand(subsetHelper(idxs, i - 1), idxs[i + 1], 1)

findSubsets(idxs) == purgeAllGapCase(idxs, subsetHelper(idxs, Len(idxs) - 1))

generateSubsetMasks(numSeqCompared) ==
  findSubsets([i \in 1..numSeqCompared |-> 1])

\* ------------------------------------------------------------- scoring
pairScoreOneSided(b1, b2) ==
  IF b1 = X /\ b2 = X THEN 0
  ELSE IF b1 = X /\ b2 # X THEN gap
  ELSE IF b1 # b2 THEN mismatch
  ELSE match

pairScore(b1, b2) ==
  IF b1 = X /\ b2 = X THEN 0
  ELSE IF (b1 = X /\ b2 # X) \/ (b2 = X /\ b1 # X) THEN gap
  ELSE IF b1 # b2 THEN mismatch
  ELSE match

RECURSIVE sumFrom(_, _, _)
sumFrom(bases, i, j) ==
  IF j > Len(bases) THEN 0
  ELSE pairScore(bases[i], bases[j]) + sumFrom(bases, i, j + 1)

RECURSIVE scoreFrom(_, _)
scoreFrom(bases, i) ==
  IF i > Len(bases) - 1 THEN 0
  ELSE sumFrom(bases, i, i + 1) + scoreFrom(bases, i + 1)

RECURSIVE selfFrom(_, _)
selfFrom(bases, i) ==
  IF i > Len(bases) THEN 0
  ELSE pairScore(bases[i], bases[i]) + selfFrom(bases, i + 1)

scoreWithSelf(bases) == scoreFrom(bases, 1) + selfFrom(bases, 1)

score(bases) == scoreFrom(bases, 1)

RECURSIVE maxFrom(_, _, _)
maxFrom(ints, n, m) ==
  IF n > Len(ints) THEN m
  ELSE maxFrom(ints, n + 1, IF ints[n] > m THEN ints[n] ELSE m)

minOf(ints) == CHOOSE x \in {ints[i] : i \in 1..Len(ints)} :
                 \A i \in 1..Len(ints) : x <= ints[i]

max(ints) == maxFrom(ints, 1, MinInt64)

\* ------------------------------------------------------------- helpers
sizes(s) == [i \in 1..Len(s) |-> Len(s[i]) + 1]

maxIndices(s) == [i \in 1..Len(s) |-> sizes(s)[i] - 1]

\* nd.NewArray: a dense zero-filled grid addressed by one index per dimension
RECURSIVE Shape(_, _)
Shape(sz, n) ==
  IF n = 0 THEN {<<>>}
  ELSE {Append(c, x) : c \in Shape(sz, n - 1), x \in 0..sz[n] - 1}

NewArray(sz) == [c \in Shape(sz, Len(sz)) |-> 0]

InGrid(grid, idxs) == idxs \in DOMAIN grid

AtFlag(grid, idxs) == IF grid[idxs] = 0 THEN 0 ELSE 1

At(grid, idxs) == grid[idxs]

Set(grid, v, idxs) == [grid EXCEPT ![idxs] = v]

\* the ok result of maskedIdxs
maskedOk(idxs, mask) == \A i \in 1..Len(idxs) : ~(idxs[i] - mask[i] < 0)

maskedIdxsUp(idxs, mask) == [i \in 1..Len(idxs) |-> idxs[i] + mask[i]]

\* the mIdxs result of maskedIdxs when ok
maskedIdxs(idxs, mask) == [i \in 1..Len(idxs) |-> idxs[i] - mask[i]]

\* every bases[idx-1] that maskedBases reads exists
basesInRange(s, idxs, mask) ==
  \A i \in 1..Len(idxs) :
    mask[i] = 1 => (idxs[i] - 1 >= 0 /\ idxs[i] - 1 <= Len(s[i]) - 1)

\* bases are stored 0-based in the code and 1-based here: bases[idx-1] is s[i][idx]
maskedBases(s, idxs, mask) ==
  [i \in 1..Len(idxs) |-> IF mask[i] = 1 THEN s[i][idxs[i]] ELSE X]

\* the base case of optimalScore
baseCase(idxs) == \E i \in 1..Len(idxs) : idxs[i] <= 0

neverCached(c, idxs) == FALSE

isCached(c, idxs) == At(c, idxs) = 1

\* float64(optScore) / 2, as whole + half * 0.5
unhalved(optScore) == [whole |-> optScore, half |-> 0]

halved(optScore) == [whole |-> optScore \div 2, half |-> optScore % 2]

\* the recurrence of optimalScore with the cache left out: every coordinate
\* is computed again on every visit
RECURSIVE uncachedScore(_, _, _)
RECURSIVE uncachedLoop(_, _, _, _, _)
uncachedLoop(s, masks, idxs, mi, best) ==
  IF mi > Len(masks) THEN best
  ELSE IF ~maskedOk(idxs, masks[mi]) THEN uncachedLoop(s, masks, idxs, mi + 1, best)
  ELSE uncachedLoop(s, masks, idxs, mi + 1,
                    max(<<best, uncachedScore(s, masks, maskedIdxs(idxs, masks[mi]))
                                + score(maskedBases(s, idxs, masks[mi]))>>))

uncachedScore(s, masks, idxs) ==
  IF baseCase(idxs) THEN 0 ELSE uncachedLoop(s, masks, idxs, 1, 0)

\* Solve without the two grids
uncachedSolve(strs) ==
  LET s == [i \in 1..Len(strs) |-> convertStringSequence(strs[i])]
  IN halved(uncachedScore(s, generateSubsetMasks(Len(s)), maxIndices(s)))

\* ------------------------------------------------------------- inputs
Strings(n, chars) == UNION {[1..m -> chars] : m \in 0..n}

RECURSIVE sumOf(_, _)
sumOf(ints, n) == IF n > Len(ints) THEN 0 ELSE ints[n] + sumOf(ints, n + 1)

\* the string lists of the length profiles lens, cut from the characters flat
Split(flat, lens) ==
  [i \in 1..Len(lens) |->
     SubSeq(flat, sumOf(SubSeq(lens, 1, i - 1), 1) + 1, sumOf(SubSeq(lens, 1, i), 1))]

\* P holds of some list of 1..k strings with at most n characters in all
SomeList(k, n, chars, P(_)) ==
  \E j \in 1..k :
    \E lens \in [1..j -> 0..n] :
      /\ sumOf(lens, 1) <= n
      /\ \E flat \in [1..sumOf(lens, 1) -> chars] : P(Split(flat, lens))

Copies(j, str) == [i \in 1..j |-> str]

Perms(j) == {p \in [1..j -> 1..j] : \A a, b \in 1..j : p[a] = p[b] => a = b}

Permuted(L, p) == [i \in 1..Len(L) |-> L[p[i]]]

AppendedAll(L, ch) == [i \in 1..Len(L) |-> Append(L[i], ch)]

\* the state before the first Solve call of a caller that will make the calls cs
Start(cs) ==
  /\ calls = cs
  /\ seqStrings = <<>>
  /\ seqs = <<>>
  /\ table = <<>>
  /\ cached = <<>>
  /\ subsetMasks = <<>>
  /\ stack = <<>>
  /\ passed = <<>>
  /\ stores = <<>>
  /\ panicked = FALSE
  /\ pc = "idle"
  /\ results = <<>>

\* one list
Init == SomeList(MaxK, MaxTotal, Chars, LAMBDA L : Start(<<L>>))

\* the same list solved twice
InitTwice == SomeList(MaxTwiceK, MaxTwiceTotal, Chars, LAMBDA L : Start(<<L, L>>))

\* a list, then a permutation of it
InitPerm ==
  SomeList(MaxK, MaxPermTotal, Chars,
           LAMBDA L : \E p \in Perms(Len(L)) : Start(<<L, Permuted(L, p)>>))

\* a list, then the list with one base appended to every string
InitAppend ==
  SomeList(MaxAppK, MaxAppTotal, Chars,
           LAMBDA L : \E ch \in BaseChars : Start(<<L, AppendedAll(L, ch)>>))

\* copies of one string of bases
InitIdent ==
  \E j \in 1..MaxIdK : \E str \in Strings(MaxIdLen, IdChars) :
    Start(<<Copies(j, str)>>)

\* ------------------------------------------------------------- actions
Top == stack[Len(stack)]

Frame(idxs) == [idxs |-> idxs, mi |-> 1, best |-> 0]

\* an index out of range ends the program
Panic ==
  /\ panicked' = TRUE
  /\ pc' = "panic"
  /\ UNCHANGED <<calls, seqStrings, seqs, table, cached, subsetMasks, stack,
                 stores, results>>

\* how a call optimalScore(idxs) ends before its mask loop, if it does
Entry(flags, idxs) ==
  IF baseCase(idxs) THEN "base"
  ELSE IF ~InGrid(flags, idxs) THEN "panic"
  ELSE IF isCached(flags, idxs) THEN "hit"
  ELSE "miss"

Outcome(idxs) == Entry(cached, idxs)

\* Solve, newMultiDP and solve up to the first mask loop (or the return,
\* when the terminal coordinate is a base case)
SolveStart ==
  /\ pc \in {"idle", "done"}
  /\ Len(results) < Len(calls)
  /\ LET in == calls[Len(results) + 1]
         s == [i \in 1..Len(in) |-> convertStringSequence(in[i])]
         top == maxIndices(s)
     IN /\ seqStrings' = in
        /\ seqs' = s
        /\ table' = NewArray(sizes(s))
        /\ cached' = NewArray(sizes(s))
        /\ stores' = NewArray(sizes(s))
        /\ subsetMasks' = generateSubsetMasks(Len(s))
        /\ passed' = top
        /\ CASE Entry(NewArray(sizes(s)), top) = "miss" ->
                  /\ stack' = <<Frame(top)>>
                  /\ results' = results
                  /\ pc' = "running"
                  /\ panicked' = panicked
             [] Entry(NewArray(sizes(s)), top) = "base" ->
                  /\ stack' = <<>>
                  /\ results' = Append(results, halved(0))
                  /\ pc' = "done"
                  /\ panicked' = panicked
             [] Entry(NewArray(sizes(s)), top) = "hit" ->
                  /\ stack' = <<>>
                  /\ results' = Append(results, halved(At(NewArray(sizes(s)), top)))
                  /\ pc' = "done"
                  /\ panicked' = panicked
             [] OTHER ->
                  /\ stack' = <<>>
                  /\ results' = results
                  /\ pc' = "panic"
                  /\ panicked' = TRUE
  /\ UNCHANGED calls

\* the frame f after its current mask gave the candidate optScore + score
Advanced(f, optScore) ==
  [f EXCEPT !.mi = f.mi + 1,
            !.best = max(<<f.best,
                           optScore + score(maskedBases(seqs, f.idxs, subsetMasks[f.mi]))>>)]

InLoop == pc = "running" /\ stack # <<>> /\ Top.mi <= Len(subsetMasks)

\* one iteration of the mask loop, up to the next iteration or to the mask
\* loop of the recursive call
MaskStep ==
  /\ InLoop
  /\ LET f == Top
         mask == subsetMasks[f.mi]
         mIdxs == maskedIdxs(f.idxs, mask)
     IN IF ~maskedOk(f.idxs, mask)
        THEN \* continue
             /\ stack' = [stack EXCEPT ![Len(stack)].mi = f.mi + 1]
             /\ UNCHANGED <<calls, seqStrings, seqs, table, cached, subsetMasks,
                            passed, stores, panicked, pc, results>>
        ELSE /\ passed' = mIdxs
             /\ CASE Outcome(mIdxs) = "miss" ->
                       /\ stack' = Append(stack, Frame(mIdxs))
                       /\ UNCHANGED <<calls, seqStrings, seqs, table, cached,
                                      subsetMasks, stores, panicked, pc, results>>
                  [] Outcome(mIdxs) \in {"base", "hit"}
                       /\ basesInRange(seqs, f.idxs, mask) ->
                       /\ stack' = [stack EXCEPT ![Len(stack)] =
                                      Advanced(f, IF Outcome(mIdxs) = "base" THEN 0
                                                  ELSE At(table, mIdxs))]
                       /\ UNCHANGED <<calls, seqStrings, seqs, table, cached,
                                      subsetMasks, stores, panicked, pc, results>>
                  [] OTHER -> Panic

LoopDone == pc = "running" /\ stack # <<>> /\ Top.mi > Len(subsetMasks)

\* the loop of a recursive call ends: store, mark, return to the caller's loop
Finish ==
  /\ LoopDone
  /\ Len(stack) > 1
  /\ LET f == Top
         caller == stack[Len(stack) - 1]
     IN IF InGrid(table, f.idxs) /\ basesInRange(seqs, caller.idxs, subsetMasks[caller.mi])
        THEN /\ table' = Set(table, f.best, f.idxs)
             /\ cached' = Set(cached, 1, f.idxs)
             /\ stores' = [stores EXCEPT ![f.idxs] = @ + 1]
             /\ stack' = [SubSeq(stack, 1, Len(stack) - 1)
                            EXCEPT ![Len(stack) - 1] = Advanced(caller, f.best)]
             /\ UNCHANGED <<calls, seqStrings, seqs, subsetMasks, passed,
                            panicked, pc, results>>
        ELSE /\ Panic
             /\ UNCHANGED <<passed>>

\* the loop of the outermost call ends: store, mark, and solve returns
SolveReturn ==
  /\ LoopDone
  /\ Len(stack) = 1
  /\ LET f == Top
     IN IF InGrid(table, f.idxs)
        THEN /\ table' = Set(table, f.best, f.idxs)
             /\ cached' = Set(cached, 1, f.idxs)
             /\ stores' = [stores EXCEPT ![f.idxs] = @ + 1]
             /\ stack' = <<>>
             /\ results' = Append(results, halved(f.best))
             /\ pc' = "done"
             /\ UNCHANGED <<calls, seqStrings, seqs, subsetMasks, passed, panicked>>
        ELSE /\ Panic
             /\ UNCHANGED <<passed>>

Next ==
  \/ SolveStart
  \/ MaskStep
  \/ Finish
  \/ SolveReturn

Spec == Init /\ [][Next]_vars
SpecTwice == InitTwice /\ [][Next]_vars
SpecPerm == InitPerm /\ [][Next]_vars
SpecAppend == InitAppend /\ [][Next]_vars
SpecIdent == InitIdent /\ [][Next]_vars

\* ------------------------------------------------------------- claims
Started == pc # "idle"

K == Len(seqs)

Frames == {stack[n] : n \in 1..Len(stack)}

Whole(n) == [whole |-> n, half |-> 0]

Last == results[Len(results)]

RECURSIVE pow2(_)
pow2(n) == IF n = 0 THEN 1 ELSE 2 * pow2(n - 1)

\* the bit vector of length j that the integer n decodes into
Decode(n, j) == [i \in 1..j |-> (n \div pow2(j - i)) % 2]

\* the value optimalScore returns for a coordinate already visited
Returned(c) == IF baseCase(c) THEN 0 ELSE table[c]

\* the candidates of the coordinate c, one per mask whose predecessor has no
\* negative component
Candidates(c) ==
  {Returned(maskedIdxs(c, subsetMasks[n])) + score(maskedBases(seqs, c, subsetMasks[n])) :
     n \in {x \in 1..Len(subsetMasks) : maskedOk(c, subsetMasks[x])}}

\* C1: the score stored for a coordinate with all components >= 1 is the
\* maximum of its candidates, predecessor score plus column score, over the
\* masks whose predecessor has no negative component, and of nothing else.
C1_StoredIsMaxOverMasks ==
  \A c \in DOMAIN cached :
    cached[c] = 1 =>
      /\ table[c] \in Candidates(c)
      /\ \A v \in Candidates(c) : v <= table[c]

\* C2: for k >= 1 the mask set holds 2^k - 1 vectors of length k over {0,1},
\* every non-zero pattern once and never the zero vector: the decodings of
\* the integers 1..2^k-1.
C2_MaskSet ==
  Started =>
    /\ Len(subsetMasks) = pow2(K) - 1
    /\ \A n \in 1..Len(subsetMasks) :
         /\ Len(subsetMasks[n]) = K
         /\ \A i \in 1..K : subsetMasks[n][i] \in {0, 1}
         /\ \E i \in 1..K : subsetMasks[n][i] = 1
    /\ \A n, m \in 1..Len(subsetMasks) : subsetMasks[n] = subsetMasks[m] => n = m
    /\ {subsetMasks[n] : n \in 1..Len(subsetMasks)} = {Decode(n, K) : n \in 1..pow2(K) - 1}

C2_Witness == Started /\ K = 3 /\ Len(subsetMasks) = 7

\* C3: Solve on a permutation of a list returns the score of Solve on the list.
C3_OrderInvariance == Len(results) = 2 => results[2] = results[1]

C3_Witness ==
  /\ Len(results) = 2
  /\ Len(calls[1]) = 3
  /\ calls[2] # calls[1]
  /\ results[1] # Whole(0)

\* C4: appending one base of {A,C,G,T} to every sequence of a list of k
\* sequences raises the result of Solve by exactly 3*k*(k-1)/2.
C4_Extension ==
  Len(results) = 2 =>
    /\ results[2].half = results[1].half
    /\ results[2].whole = results[1].whole + (3 * K * (K - 1)) \div 2

\* C5: k identical sequences of n bases score n * k*(k-1)/2 * 3; two copies
\* of AC score 6.0 and three copies of AAA score 27.0.
C5_IdenticalSequences ==
  Len(results) = 1 =>
    /\ results[1] = Whole(Len(calls[1][1]) * ((K * (K - 1)) \div 2) * 3)
    /\ calls[1] = <<<<"A", "C">>, <<"A", "C">>>> => results[1] = Whole(6)
    /\ calls[1] = <<<<"A", "A", "A">>, <<"A", "A", "A">>, <<"A", "A", "A">>>>
         => results[1] = Whole(27)

C5_Witness ==
  /\ Len(results) = 1
  /\ calls[1] = <<<<"A", "A", "A">>, <<"A", "A", "A">>, <<"A", "A", "A">>>>
  /\ results[1].whole = 27

\* C6: with one sequence the mask set is the single mask [1], every column
\* scores 0 and Solve returns 0, whatever the sequence holds.
C6_SingleSequence ==
  (Started /\ K = 1) =>
    /\ subsetMasks = <<<<1>>>>
    /\ \A c \in DOMAIN table :
         /\ table[c] = 0
         /\ ~baseCase(c) => score(maskedBases(seqs, c, subsetMasks[1])) = 0
    /\ \A f \in Frames : f.best = 0
    /\ pc = "done" => Last = Whole(0)

C6_Witness ==
  /\ pc = "done"
  /\ seqStrings = <<<<"A", "-", "C", "A">>>>
  /\ stores[<<4>>] = 1
  /\ Last = Whole(0)

\* C7: within one Solve call a set flag is never cleared and the score of a
\* flagged coordinate is never stored again; a later visit reads the grid.
C7_StoredOnce ==
  [][pc = "running" =>
       \A c \in DOMAIN cached :
         cached[c] = 1 =>
           /\ cached'[c] = 1
           /\ table'[c] = table[c]
           /\ stores'[c] = stores[c]]_vars

\* (2,2) visited (1,1) first; the loop of (1,2) has visited it again
C7_Witness ==
  /\ pc = "running"
  /\ Len(stack) = 2
  /\ stack[1].idxs = <<2, 2>>
  /\ stack[2].idxs = <<1, 2>>
  /\ stack[2].mi = 4
  /\ passed = <<1, 1>>
  /\ cached[<<1, 1>>] = 1
  /\ stores[<<1, 1>>] = 1

InBounds(c) ==
  /\ Len(c) = K
  /\ \A i \in 1..K : c[i] >= 0 /\ c[i] <= Len(seqs[i])

\* C8: every coordinate passed to optimalScore or used on a grid has each
\* component in [0, length of its sequence], and maskedBases reads only
\* storage indices in [0, length - 1]: no index is out of range.
C8_IndicesInRange ==
  /\ pc # "panic"
  /\ ~panicked
  /\ Started => InBounds(passed)
  /\ \A f \in Frames : InBounds(f.idxs) /\ InGrid(table, f.idxs) /\ InGrid(cached, f.idxs)
  /\ \A n \in 1..Len(stack) :
       (n < Len(stack) \/ stack[n].mi <= Len(subsetMasks)) =>
         (maskedOk(stack[n].idxs, subsetMasks[stack[n].mi]) =>
            basesInRange(seqs, stack[n].idxs, subsetMasks[stack[n].mi]))

C8_Witness ==
  /\ pc = "running"
  /\ K = 3
  /\ stack[1].idxs = <<2, 1, 1>>
  /\ stack[1].mi = 6
  /\ passed = <<2, 0, 0>>

\* C9: the score Solve returns with the grids equals the score of the same
\* recurrence evaluated with no cache, so two calls on one input agree.
C9_CacheUnobservable ==
  pc = "done" =>
    /\ Last = uncachedSolve(seqStrings)
    /\ (Len(results) = 2 /\ calls[1] = calls[2]) => results[2] = results[1]

\* the second of two runs whose result rests on a score read from the grid:
\* (2,2) reads (1,1), and (3,2) reads (2,2)
C9_Witness ==
  /\ Len(results) = 2
  /\ seqStrings = <<<<"A", "A", "C">>, <<"A", "A">>>>
  /\ stores[<<1, 1>>] = 1
  /\ stores[<<2, 2>>] = 1
  /\ results[2] = [whole |-> 4, half |-> 1]

====
